---- MODULE Spec2Model ----
(***************************************************************************)
(* Codebase Compass: the tree comparison engine of src/src/analyzer.py.    *)
(*                                                                         *)
(* A string is a sequence of one-character strings, so that basename,      *)
(* splitext, fnmatch and lower() are computed character by character.      *)
(* A path is a sequence of names (strings); the relative path handed to    *)
(* is_ignored is the names joined with os.sep (POSIX: "/").                *)
(***************************************************************************)
EXTENDS Integers, Sequences, FiniteSets, TLC

VARIABLES
    base,                 \* the base tree: path -> entry, for the paths that exist
    target,               \* the target tree: path -> entry, for the paths that exist
    ignored_patterns,     \* argument: list of pattern strings
    ignored_extensions,   \* argument: the ignored extensions
    quick_scan,           \* argument
    pc,                   \* position in generate_tree_comparison
    simple_ignore_set,    \* analyzer.py:73
    wildcard_ignore_list, \* analyzer.py:74
    walk_stack,           \* directories os.walk has still to yield, next first
    tree_dict,            \* analyzer.py:69, flattened: directory path -> children in insertion order
    frames,               \* the active calls of build_data_with_comparison, innermost first
    records,              \* the tuples appended to data_list, in order of emission
    visited,              \* history: the path each emitted record was computed for
    syscalls,             \* history: the file system calls are_files_identical made for each record
    status_counts,        \* analyzer.py:70
    prev                  \* the result of the preceding call on the same trees, or NoResult

vars == <<base, target, ignored_patterns, ignored_extensions, quick_scan, pc,
          simple_ignore_set, wildcard_ignore_list, walk_stack, tree_dict, frames,
          records, visited, syscalls, status_counts, prev>>

-----------------------------------------------------------------------------
(* Strings.                                                                *)

Sep == "/"

\* ord(c) for the characters that occur in names and patterns
Ord(c) ==
    CASE c = "!" -> 33 [] c = "*" -> 42 [] c = "." -> 46 [] c = "/" -> 47
      [] c = "?" -> 63 [] c = "A" -> 65 [] c = "S" -> 83 [] c = "[" -> 91
      [] c = "]" -> 93 [] c = "a" -> 97 [] c = "b" -> 98 [] c = "c" -> 99
      [] c = "l" -> 108 [] c = "s" -> 115

\* str.lower() on one character
LowerChar(c) ==
    CASE c = "A" -> "a" [] c = "S" -> "s" [] OTHER -> c

\* x.lower()
Lower(s) == [i \in 1..Len(s) |-> LowerChar(s[i])]

\* s < t for Python strings: lexicographic by code point
RECURSIVE StrLess(_, _)
StrLess(s, t) ==
    IF t = <<>> THEN FALSE
    ELSE IF s = <<>> THEN TRUE
    ELSE IF s[1] # t[1] THEN Ord(s[1]) < Ord(t[1])
    ELSE StrLess(Tail(s), Tail(t))

\* c in s
Contains(s, c) == \E i \in 1..Len(s) : s[i] = c

\* s.rfind(c), 1-based; 0 when c does not occur
RFind(s, c) ==
    IF Contains(s, c) THEN CHOOSE i \in 1..Len(s) : s[i] = c /\ \A j \in (i+1)..Len(s) : s[j] # c
    ELSE 0

\* s[i:] with i 1-based
From(s, i) == SubSeq(s, i, Len(s))

\* relative_path.replace(os.sep, '/')
Replace(s, old, new) == [i \in 1..Len(s) |-> IF s[i] = old THEN new ELSE s[i]]

\* os.path.join(a, b) for relative b: a + sep + b, or b when a is empty
PathJoin(a, b) == IF a = <<>> THEN b ELSE a \o <<Sep>> \o b

\* the relative path string of a path: its names joined with os.sep
RECURSIVE RelPath(_)
RelPath(path) ==
    IF path = <<>> THEN <<>>
    ELSE PathJoin(RelPath(SubSeq(path, 1, Len(path) - 1)), path[Len(path)])

\* os.path.basename(p): what follows the last separator
Basename(p) == From(p, RFind(p, Sep) + 1)

\* os.path.splitext(p)[1]: from the last dot, unless only dots precede it in the
\* final component
SplitextExt(p) ==
    LET sepIndex == RFind(p, Sep)
        dotIndex == RFind(p, ".")
    IN  IF dotIndex > sepIndex /\ \E k \in (sepIndex + 1)..(dotIndex - 1) : p[k] # "."
        THEN From(p, dotIndex)
        ELSE <<>>

-----------------------------------------------------------------------------
(* fnmatch.fnmatch(name, pat) on POSIX (os.path.normcase is the identity): *)
(* the pattern is translated token by token and the whole name must match. *)

Lit(c)          == [t |-> "lit",  c |-> c,  neg |-> FALSE, set |-> {}]
AnyOne          == [t |-> "any",  c |-> "", neg |-> FALSE, set |-> {}]
Star            == [t |-> "star", c |-> "", neg |-> FALSE, set |-> {}]
Class(neg, set) == [t |-> "set",  c |-> "", neg |-> neg,   set |-> set]

\* fnmatch.translate's scan for the "]" that closes a class opened before
\* position i: a leading "!" and a "]" right after it do not close the class.
\* Len(pat) + 1 when the class is never closed.
ClassEnd(pat, i) ==
    LET n  == Len(pat)
        j1 == IF i <= n /\ pat[i] = "!" THEN i + 1 ELSE i
        j2 == IF j1 <= n /\ pat[j1] = "]" THEN j1 + 1 ELSE j1
    IN  IF \E j \in j2..n : pat[j] = "]"
        THEN CHOOSE j \in j2..n : pat[j] = "]" /\ \A k \in j2..(j - 1) : pat[k] # "]"
        ELSE n + 1

\* fnmatch.translate: the tokens of pat from position i on
RECURSIVE Translate(_, _)
Translate(pat, i) ==
    IF i > Len(pat) THEN <<>>
    ELSE LET c == pat[i] IN
         IF c = "*" THEN <<Star>> \o Translate(pat, i + 1)
         ELSE IF c = "?" THEN <<AnyOne>> \o Translate(pat, i + 1)
         ELSE IF c = "["
              THEN LET j == ClassEnd(pat, i + 1) IN
                   IF j > Len(pat) THEN <<Lit("[")>> \o Translate(pat, i + 1)
                   ELSE LET stuff == SubSeq(pat, i + 1, j - 1) IN
                        IF stuff[1] = "!"
                        THEN <<Class(TRUE, {stuff[k] : k \in 2..Len(stuff)})>>
                                 \o Translate(pat, j + 1)
                        ELSE <<Class(FALSE, {stuff[k] : k \in 1..Len(stuff)})>>
                                 \o Translate(pat, j + 1)
         ELSE <<Lit(c)>> \o Translate(pat, i + 1)

\* one character against one token that is not a star
TokenMatches(tok, ch) ==
    CASE tok.t = "lit" -> ch = tok.c
      [] tok.t = "any" -> TRUE
      [] tok.t = "set" -> (ch \in tok.set) # tok.neg
      [] OTHER -> FALSE

\* re.match of the translated pattern, which ends in \Z: name[i..] against toks[k..]
RECURSIVE MatchFrom(_, _, _, _)
MatchFrom(name, i, toks, k) ==
    IF k > Len(toks) THEN i > Len(name)
    ELSE IF toks[k].t = "star"
         THEN \E m \in i..(Len(name) + 1) : MatchFrom(name, m, toks, k + 1)
         ELSE /\ i <= Len(name)
              /\ TokenMatches(toks[k], name[i])
              /\ MatchFrom(name, i + 1, toks, k + 1)

\* a faulty variant: the translated pattern is searched for anywhere in the name
fnmatch_Search(name, pat) ==
    \E i \in 1..(Len(name) + 1) : \E j \in (i - 1)..Len(name) :
        MatchFrom(SubSeq(name, i, j), 1, Translate(pat, 1), 1)

fnmatch(name, pat) == MatchFrom(name, 1, Translate(pat, 1), 1)

-----------------------------------------------------------------------------
(* analyzer.is_ignored                                                     *)

is_ignored(relative_path, simple_set, wildcard_list, extensions) ==
    LET path_to_check == Replace(relative_path, Sep, "/")
        basename      == Basename(path_to_check)
        extension     == SplitextExt(basename)
    IN  IF path_to_check \in simple_set THEN TRUE
        ELSE IF basename \in simple_set THEN TRUE
        ELSE IF extension # <<>> /\ extension \in extensions THEN TRUE
        ELSE \E k \in 1..Len(wildcard_list) : fnmatch(path_to_check, wildcard_list[k])

-----------------------------------------------------------------------------
(* The pre-processing of the ignore patterns, analyzer.py:73-74.           *)

\* a faulty variant: "[" is not taken for a wildcard character
IsSimple_NoBracket(p) == ~Contains(p, "*") /\ ~Contains(p, "?")

IsSimple(p) == ~Contains(p, "*") /\ ~Contains(p, "?") /\ ~Contains(p, "[")

SimpleIgnoreSet(patterns) == {patterns[k] : k \in {k \in 1..Len(patterns) : IsSimple(patterns[k])}}

WildcardIgnoreList(patterns, simple_set) ==
    LET NotSimple(p) == p \notin simple_set IN SelectSeq(patterns, NotSimple)

-----------------------------------------------------------------------------
(* The two trees. An entry is a directory or a file; a file has a size and *)
(* a content, and err tells which system call on it fails: "stat"          *)
(* (os.stat), "open" (open) or "read" (f.read), or "none".                 *)

Dir              == [kind |-> "dir",  size |-> 0, data |-> "",  err |-> "none"]
File(size, data) == [kind |-> "file", size |-> size, data |-> data, err |-> "none"]

IsPrefix(p, q)       == Len(p) <= Len(q) /\ SubSeq(q, 1, Len(p)) = p
IsStrictPrefix(p, q) == Len(p) < Len(q) /\ IsPrefix(p, q)
Parent(p)            == SubSeq(p, 1, Len(p) - 1)
Last(p)              == p[Len(p)]

\* an absolute path: base_root or target_root joined with a relative path
BasePath(rel)   == [root |-> "base", rel |-> rel]
TargetPath(rel) == [root |-> "target", rel |-> rel]

Tree(p) == IF p.root = "base" THEN base ELSE target

\* os.stat(p) succeeds
StatOk(p) == p.rel \in DOMAIN Tree(p) /\ Tree(p)[p.rel].err # "stat"

\* os.path.exists(p): False whenever os.stat fails
exists(p) == StatOk(p)

\* the exception os.path.getsize(p) raises, or "none"
GetsizeError(p) ==
    IF p.rel \notin DOMAIN Tree(p) THEN "FileNotFoundError"
    ELSE IF Tree(p)[p.rel].err = "stat" THEN "PermissionError"
    ELSE "none"

\* the exception open(p, 'rb') raises, or "none"
OpenError(p) ==
    IF p.rel \notin DOMAIN Tree(p) THEN "FileNotFoundError"
    ELSE IF Tree(p)[p.rel].err \in {"stat", "open"} THEN "PermissionError"
    ELSE IF Tree(p)[p.rel].kind = "dir" THEN "IsADirectoryError"
    ELSE "none"

\* the exception f.read(8192) raises, or "none"
ReadError(p) == IF Tree(p)[p.rel].err = "read" THEN "OSError" ELSE "none"

\* hashlib.sha256 over the chunks read: the digest of the content
Sha256(data) == <<"sha256", data>>

\* a faulty variant: the except clause names FileNotFoundError only
CaughtExceptions_NotFoundOnly == {"FileNotFoundError"}

\* the exception classes the except clause of are_files_identical names, and
\* their subclasses among the exceptions the body can raise
CaughtExceptions == {"FileNotFoundError", "OSError", "PermissionError", "IsADirectoryError"}

\* the try block of are_files_identical: "True", "False", or the exception raised
AreFilesIdenticalBody(path1, path2) ==
    IF GetsizeError(path1) # "none" THEN GetsizeError(path1)
    ELSE IF GetsizeError(path2) # "none" THEN GetsizeError(path2)
    ELSE IF Tree(path1)[path1.rel].size # Tree(path2)[path2.rel].size THEN "False"
    ELSE IF OpenError(path1) # "none" THEN OpenError(path1)
    ELSE IF OpenError(path2) # "none" THEN OpenError(path2)
    ELSE IF ReadError(path1) # "none" THEN ReadError(path1)
    ELSE IF ReadError(path2) # "none" THEN ReadError(path2)
    ELSE IF Sha256(Tree(path1)[path1.rel].data) = Sha256(Tree(path2)[path2.rel].data)
         THEN "True" ELSE "False"

Call(op, path) == [op |-> op, on |-> path.root]

\* a faulty variant: both files are read and hashed before their sizes are compared
AreFilesIdenticalCalls_HashFirst(path1, path2) ==
    <<Call("open", path1), Call("open", path2), Call("read", path1), Call("read", path2),
      Call("getsize", path1), Call("getsize", path2)>>

\* the file system calls the try block makes, in order, up to the first that raises
\* or to the return
AreFilesIdenticalCalls(path1, path2) ==
    <<Call("getsize", path1)>> \o
    IF GetsizeError(path1) # "none" THEN <<>>
    ELSE <<Call("getsize", path2)>> \o
    IF GetsizeError(path2) # "none" THEN <<>>
    ELSE IF Tree(path1)[path1.rel].size # Tree(path2)[path2.rel].size THEN <<>>
    ELSE <<Call("open", path1)>> \o
    IF OpenError(path1) # "none" THEN <<>>
    ELSE <<Call("open", path2)>> \o
    IF OpenError(path2) # "none" THEN <<>>
    ELSE <<Call("read", path1)>> \o
    IF ReadError(path1) # "none" THEN <<>>
    ELSE <<Call("read", path2)>>

\* are_files_identical: "True", "False", or the exception that escapes it
are_files_identical(path1, path2) ==
    LET r == AreFilesIdenticalBody(path1, path2)
    IN  IF r \in {"True", "False"} THEN r
        ELSE IF r \in CaughtExceptions THEN "False"
        ELSE r

-----------------------------------------------------------------------------
(* The walk of the base tree, analyzer.py:76-98.                           *)

\* the orders in which a directory listing can enumerate the names S
Enumerations(S) ==
    {s \in [1..Cardinality(S) -> S] : \A i, j \in 1..Cardinality(S) : i # j => s[i] # s[j]}

\* the names of the entries of kind k directly below directory root of the base tree
ChildNames(root, k) ==
    {Last(p) : p \in {q \in DOMAIN base : Len(q) > 0 /\ Parent(q) = root /\ base[q].kind = k}}

\* a faulty variant: the check is given the bare name, not the path from base_root
Retain_NameOnly(names, current_relative_dir) ==
    LET Keep(n) == ~is_ignored(n, simple_ignore_set, wildcard_ignore_list, ignored_extensions)
    IN  SelectSeq(names, Keep)

\* lines 81-88: the names of a listing that is_ignored does not exclude
Retain(names, current_relative_dir) ==
    LET Keep(n) == ~is_ignored(PathJoin(current_relative_dir, n), simple_ignore_set,
                               wildcard_ignore_list, ignored_extensions)
    IN  SelectSeq(names, Keep)

\* a faulty variant: line 81 rebinds dirs, so os.walk still descends into every directory
Descend_Rebound(original_dirs, dirs) == original_dirs

\* the directories os.walk goes on to yield below the current one: the list dirs
\* as the loop body leaves it, since line 81 assigns to dirs[:] in place
Descend(original_dirs, dirs) == dirs

\* a faulty variant: the legacy check without its extension test
legacy_is_ignored_NoExtension(path_segment, patterns, extensions) ==
    \E k \in 1..Len(patterns) : patterns[k] = path_segment

\* compass_analyzer.is_ignored: the name is an element of the pattern list, or its
\* extension is non-empty and an ignored extension
legacy_is_ignored(path_segment, patterns, extensions) ==
    IF \E k \in 1..Len(patterns) : patterns[k] = path_segment THEN TRUE
    ELSE LET extension == SplitextExt(path_segment)
         IN  extension # <<>> /\ extension \in extensions

\* compass_analyzer.py lines 79-80: the names of a listing the legacy check keeps
LegacyRetain(names) ==
    {n \in names : ~legacy_is_ignored(n, ignored_patterns, ignored_extensions)}

\* compass_analyzer.py lines 78-89: the keys the legacy walk sets in its tree_dict
\* at and below directory root, each of which its build emits one line for
RECURSIVE LegacyWalk(_)
LegacyWalk(root) ==
    LET dirs  == LegacyRetain(ChildNames(root, "dir"))
        files == LegacyRetain(ChildNames(root, "file"))
    IN  {Append(root, n) : n \in dirs \cup files}
            \cup UNION {LegacyWalk(Append(root, d)) : d \in dirs}

\* the keys of lines 95-98 in the order they are set: directories, then files
Children(dirs, files) ==
    [i \in 1..(Len(dirs) + Len(files)) |->
        IF i <= Len(dirs) THEN [name |-> dirs[i], isFile |-> FALSE]
        ELSE [name |-> files[i - Len(dirs)], isFile |-> TRUE]]

\* current_level.setdefault(name, {} or None) on the dictionary of directory parent:
\* a key that is present keeps its place and value, a new key goes last
SetDefault(td, parent, kid) ==
    IF \E i \in 1..Len(td[parent]) : td[parent][i].name = kid.name THEN td
    ELSE IF kid.isFile THEN [td EXCEPT ![parent] = Append(@, kid)]
    ELSE (Append(parent, kid.name) :> <<>>) @@ [td EXCEPT ![parent] = Append(@, kid)]

\* lines 92-94: the dictionary of the directory being walked, reached from the top
RECURSIVE EnsurePath(_, _, _)
EnsurePath(td, root, k) ==
    IF k > Len(root) THEN td
    ELSE EnsurePath(SetDefault(td, SubSeq(root, 1, k - 1), [name |-> root[k], isFile |-> FALSE]),
                    root, k + 1)

\* lines 95-98
RECURSIVE SetDefaults(_, _, _)
SetDefaults(td, root, kids) ==
    IF kids = <<>> THEN td
    ELSE SetDefaults(SetDefault(td, root, Head(kids)), root, Tail(kids))

-----------------------------------------------------------------------------
(* build_data_with_comparison, analyzer.py:100-130.                        *)

\* a faulty variant: the key compares the names as they are, without lower()
KeyLess_CaseSensitive(x, y) ==
    IF x.isFile # y.isFile THEN ~x.isFile
    ELSE StrLess(x.name, y.name)

\* the sort key of line 102: (d[x] is None, x.lower()), compared as a tuple
KeyLess(x, y) ==
    IF x.isFile # y.isFile THEN ~x.isFile
    ELSE StrLess(Lower(x.name), Lower(y.name))

\* sorted() is stable: x goes before the first element whose key is greater
RECURSIVE SortInsert(_, _)
SortInsert(sorted, x) ==
    IF sorted = <<>> THEN <<x>>
    ELSE IF KeyLess(x, Head(sorted)) THEN <<x>> \o sorted
    ELSE <<Head(sorted)>> \o SortInsert(Tail(sorted), x)

RECURSIVE StableSort(_)
StableSort(s) ==
    IF s = <<>> THEN <<>>
    ELSE SortInsert(StableSort(SubSeq(s, 1, Len(s) - 1)), s[Len(s)])

\* line 102: the items of the dictionary of directory path, sorted
SortedItems(path) == StableSort(tree_dict[path])

\* lines 104 and 128: the box-drawing connectors and indents, written in ASCII
LastConnector == "L-- "
MidConnector  == "|-- "
LastExtension == "    "
MidExtension  == "|   "

\* a faulty variant: quick_scan is looked at before the target path is
StatusKey_QuickFirst(rel, isFile) ==
    IF quick_scan THEN "identical"
    ELSE IF ~exists(TargetPath(rel)) THEN "missing"
    ELSE IF ~isFile THEN "identical"
    ELSE LET r == are_files_identical(BasePath(rel), TargetPath(rel))
         IN  IF r = "True" THEN "identical"
             ELSE IF r = "False" THEN "modified"
             ELSE r

\* a faulty variant: an existing target of the other type than a directory's is
\* reported as modified
StatusKey_TypeChecked(rel, isFile) ==
    IF ~exists(TargetPath(rel)) THEN "missing"
    ELSE IF ~isFile
         THEN IF Tree(TargetPath(rel))[rel].kind = "dir" THEN "identical" ELSE "modified"
    ELSE IF quick_scan THEN "identical"
    ELSE LET r == are_files_identical(BasePath(rel), TargetPath(rel))
         IN  IF r = "True" THEN "identical"
             ELSE IF r = "False" THEN "modified"
             ELSE r

\* lines 108-122: the status key, or the exception that escapes are_files_identical
StatusKey(rel, isFile) ==
    IF ~exists(TargetPath(rel)) THEN "missing"
    ELSE IF ~isFile THEN "identical"
    ELSE IF quick_scan THEN "identical"
    ELSE LET r == are_files_identical(BasePath(rel), TargetPath(rel))
         IN  IF r = "True" THEN "identical"
             ELSE IF r = "False" THEN "modified"
             ELSE r

\* lines 109-120: the file system calls of are_files_identical, when it is called
StatusCalls(rel, isFile) ==
    IF exists(TargetPath(rel)) /\ isFile /\ ~quick_scan
    THEN AreFilesIdenticalCalls(BasePath(rel), TargetPath(rel))
    ELSE <<>>

StatusKeys == {"identical", "modified", "missing"}

\* a faulty variant: the counter is assigned, not incremented
Increment_Assign(counts, status_key) == [counts EXCEPT ![status_key] = 1]

\* line 124: status_counts[status_key] += 1
Increment(counts, status_key) == [counts EXCEPT ![status_key] = @ + 1]

\* a faulty variant: a directory that is missing in the target is not descended into
Recurses_OnlyExisting(isFile, status_key) == ~isFile /\ status_key # "missing"

\* line 127: the call recurses into every item that is a directory
Recurses(isFile, status_key) == ~isFile

\* a call of build_data_with_comparison: its arguments, its sorted items, and the
\* index of the item its loop is at
Frame(path, prefix) == [path |-> path, prefix |-> prefix, items |-> SortedItems(path), i |-> 1]

\* the calls whose loop has run out return: their data_list is spliced into the
\* caller's at the place the records were emitted
RECURSIVE Unwind(_)
Unwind(fs) ==
    IF fs = <<>> THEN <<>>
    ELSE IF Head(fs).i > Len(Head(fs).items) THEN Unwind(Tail(fs))
    ELSE fs

-----------------------------------------------------------------------------
(* The trees and configurations the comparison is run on.                  *)

MaxPatterns == 2   \* length of the configured list of ignore patterns
MaxDiffs    == 1   \* number of entries in which the trees depart from the reference

\* names
nS  == <<"S">>
nc  == <<"c">>
nA  == <<"A">>
na  == <<"a">>
nb  == <<"b">>
nal == <<"a", ".", "l">>
ndl == <<".", "l">>

\* the reference tree: S/{b, a.l}, c/{.l}, A, a
Reference ==
    (<<nS>> :> Dir) @@ (<<nc>> :> Dir) @@
    (<<nA>> :> File(1, "x")) @@ (<<na>> :> File(1, "x")) @@
    (<<nS, nb>> :> File(1, "x")) @@ (<<nS, nal>> :> File(1, "x")) @@
    (<<nc, ndl>> :> File(1, "x"))

\* the ways one entry of a tree departs from the reference: it is absent, a file has
\* another content of the same size, another size, or is a directory (a directory a
\* file), or a system call on it fails
FileEdits == {"absent", "data", "size", "kind", "dir"}
DirEdits  == {"absent", "kind"}
Faults    == {"stat", "open", "read"}

FilesOf(tree) == {q \in DOMAIN tree : tree[q].kind = "file"}
DirsOf(tree)  == {q \in DOMAIN tree : tree[q].kind = "dir"}

\* the files on which a system call may fail: one at the top, one in a directory
FaultyFiles == {<<na>>, <<nS, nb>>}

Edits ==
    {[side |-> "target", path |-> <<>>, kind |-> "absent"]} \cup
    {[side |-> "target", path |-> p, kind |-> k] : p \in FilesOf(Reference), k \in FileEdits} \cup
    {[side |-> "target", path |-> p, kind |-> k] : p \in DirsOf(Reference), k \in DirEdits} \cup
    {[side |-> "base", path |-> p, kind |-> "absent"] : p \in DOMAIN Reference} \cup
    {[side |-> sd, path |-> p, kind |-> k] : sd \in {"base", "target"}, p \in FaultyFiles, k \in Faults}

\* the sets of at most n edits, no two of the same entry of the same tree
RECURSIVE EditSetsUpTo(_)
EditSetsUpTo(n) ==
    IF n = 0 THEN {{}}
    ELSE LET smaller == EditSetsUpTo(n - 1)
         IN  smaller \cup
             {E \cup {e} : <<E, e>> \in
                 {x \in smaller \X Edits :
                     \A f \in x[1] : ~(f.side = x[2].side /\ f.path = x[2].path)}}

\* a directory of the target replaced by a file together with a file outside it
\* replaced by a directory
TypeSwaps ==
    {{[side |-> "target", path |-> d, kind |-> "kind"], [side |-> "target", path |-> f, kind |-> k]} :
        <<d, f, k>> \in {x \in DirsOf(Reference) \X FilesOf(Reference) \X {"kind", "dir"} :
                            ~IsPrefix(x[1], x[2])}}

EditSets == EditSetsUpTo(MaxDiffs) \cup TypeSwaps

\* edit e takes path p out of its tree
Removes(e, p) ==
    \/ e.kind = "absent" /\ IsPrefix(e.path, p)
    \/ e.kind = "kind" /\ IsStrictPrefix(e.path, p)

Edited(entry, k) ==
    CASE k = "data" -> File(entry.size, "y")
      [] k = "size" -> File(entry.size + 1, "xy")
      [] k = "kind" -> IF entry.kind = "dir" THEN File(1, "x") ELSE Dir
      [] k = "dir"  -> [Dir EXCEPT !.size = entry.size]
      [] k \in Faults -> [entry EXCEPT !.err = k]
      [] OTHER -> entry

TreeOf(side, E) ==
    LET own == {e \in E : e.side = side}
    IN  [p \in {q \in DOMAIN Reference : \A e \in own : ~Removes(e, q)} |->
            IF \E e \in own : e.path = p
            THEN Edited(Reference[p], (CHOOSE e \in own : e.path = p).kind)
            ELSE Reference[p]]

\* the tree at target_root: the root directory itself is the entry at the empty
\* path, unless target_root does not exist
TargetOf(E) ==
    IF \E e \in E : e.side = "target" /\ e.path = <<>> /\ e.kind = "absent"
    THEN TreeOf("target", E)
    ELSE (<<>> :> Dir) @@ TreeOf("target", E)

\* the configured patterns: literal names and paths, and wildcard patterns
Patterns ==
    { <<"S">>, <<"b">>, <<"S", "/", "b">>, <<"?">>, <<"S", "/", "*">>,
      <<"*", ".", "l">>, <<"[", "A", "b", "]">> }

PatternLists == UNION {[1..n -> Patterns] : n \in 0..MaxPatterns}

Extensions == {<<".", "l">>}

NoResult == <<>>

\* the locals of generate_tree_comparison before its first statement
Entry ==
    /\ pc = "start"
    /\ simple_ignore_set = {}
    /\ wildcard_ignore_list = <<>>
    /\ walk_stack = <<>>
    /\ tree_dict = (<<>> :> <<>>)
    /\ frames = <<>>
    /\ records = <<>>
    /\ visited = <<>>
    /\ syscalls = <<>>
    /\ status_counts = [k \in StatusKeys |-> 0]

\* trees that depart from each other, no ignore rules; the first call is a deep
\* comparison (quick_scan defaults to False), the second either
InitTrees ==
    /\ \E E \in EditSets : base = TreeOf("base", E) /\ target = TargetOf(E)
    /\ ignored_patterns = <<>>
    /\ ignored_extensions = {}
    /\ quick_scan = FALSE

\* ignore rules, on two copies of the reference tree
InitIgnore ==
    /\ base = Reference
    /\ target = TargetOf({})
    /\ ignored_patterns \in PatternLists
    /\ ignored_extensions \in SUBSET Extensions
    /\ quick_scan = FALSE

Init ==
    /\ InitTrees \/ InitIgnore
    /\ Entry
    /\ prev = NoResult

-----------------------------------------------------------------------------
(* generate_tree_comparison, step by step.                                 *)

inputs == <<base, target, ignored_patterns, ignored_extensions>>

\* lines 69-74
Preprocess ==
    /\ pc = "start"
    /\ simple_ignore_set' = SimpleIgnoreSet(ignored_patterns)
    /\ wildcard_ignore_list' = WildcardIgnoreList(ignored_patterns, simple_ignore_set')
    /\ walk_stack' = <<<<>>>>
    /\ pc' = "walk"
    /\ UNCHANGED <<inputs, quick_scan, tree_dict, frames, records, visited, syscalls, status_counts, prev>>

\* lines 76-98: one iteration of the loop over os.walk(base_root, topdown=True)
WalkStep ==
    /\ pc = "walk"
    /\ walk_stack # <<>>
    /\ LET root == Head(walk_stack)
           current_relative_dir == RelPath(root)
       IN  \E original_dirs \in Enumerations(ChildNames(root, "dir")),
              original_files \in Enumerations(ChildNames(root, "file")) :
              LET dirs  == Retain(original_dirs, current_relative_dir)
                  files == Retain(original_files, current_relative_dir)
                  below == Descend(original_dirs, dirs)
              IN  /\ tree_dict' = SetDefaults(EnsurePath(tree_dict, root, 1), root,
                                               Children(dirs, files))
                  /\ walk_stack' = [i \in 1..Len(below) |-> Append(root, below[i])]
                                       \o Tail(walk_stack)
    /\ UNCHANGED <<inputs, quick_scan, pc, simple_ignore_set, wildcard_ignore_list, frames,
                   records, visited, syscalls, status_counts, prev>>

\* line 132: the walk is over, build_data_with_comparison(tree_dict) is called
CallBuild ==
    /\ pc = "walk"
    /\ walk_stack = <<>>
    /\ frames' = Unwind(<<Frame(<<>>, <<>>)>>)
    /\ pc' = IF frames' = <<>> THEN "done" ELSE "build"
    /\ UNCHANGED <<inputs, quick_scan, simple_ignore_set, wildcard_ignore_list, walk_stack,
                   tree_dict, records, visited, syscalls, status_counts, prev>>

\* lines 103-129: one iteration of the loop of the innermost call, and the
\* returns (lines 130, 133) that follow it
BuildStep ==
    /\ pc = "build"
    /\ LET top        == Head(frames)
           item       == top.items[top.i]
           last       == top.i = Len(top.items)
           connector  == IF last THEN LastConnector ELSE MidConnector
           rel        == top.path \o <<item.name>>
           status_key == StatusKey(rel, item.isFile)
           advanced   == [top EXCEPT !.i = top.i + 1]
           extension  == IF last THEN LastExtension ELSE MidExtension
       IN  IF status_key \notin StatusKeys
           THEN \* an exception escapes are_files_identical and the call
                /\ pc' = "raised"
                /\ UNCHANGED <<frames, records, visited, syscalls, status_counts>>
           ELSE /\ status_counts' = Increment(status_counts, status_key)
                /\ records' = Append(records, [prefix |-> top.prefix, connector |-> connector,
                                               name |-> item.name, status_key |-> status_key])
                /\ visited' = Append(visited, rel)
                /\ syscalls' = Append(syscalls, StatusCalls(rel, item.isFile))
                /\ frames' = Unwind(IF ~Recurses(item.isFile, status_key)
                                    THEN <<advanced>> \o Tail(frames)
                                    ELSE <<Frame(rel, Append(top.prefix, extension)), advanced>>
                                             \o Tail(frames))
                /\ pc' = IF frames' = <<>> THEN "done" ELSE "build"
    /\ UNCHANGED <<inputs, quick_scan, simple_ignore_set, wildcard_ignore_list, walk_stack,
                   tree_dict, prev>>

\* the caller keeps the result and calls generate_tree_comparison once more on the
\* same trees and ignore rules
CallAgain ==
    /\ pc = "done"
    /\ prev = NoResult
    /\ prev' = <<[records |-> records, counts |-> status_counts, quick_scan |-> quick_scan,
                  visited |-> visited]>>
    /\ quick_scan' \in BOOLEAN
    /\ pc' = "start"
    /\ simple_ignore_set' = {}
    /\ wildcard_ignore_list' = <<>>
    /\ walk_stack' = <<>>
    /\ tree_dict' = (<<>> :> <<>>)
    /\ frames' = <<>>
    /\ records' = <<>>
    /\ visited' = <<>>
    /\ syscalls' = <<>>
    /\ status_counts' = [k \in StatusKeys |-> 0]
    /\ UNCHANGED inputs

Next == Preprocess \/ WalkStep \/ CallBuild \/ BuildStep \/ CallAgain

Spec == Init /\ [][Next]_vars

-----------------------------------------------------------------------------
(* What the claims speak of, stated on the arguments of the call.          *)

\* the ignore check as the call performs it on the entry at path p
IgnoredPath(p) ==
    is_ignored(RelPath(p), SimpleIgnoreSet(ignored_patterns),
               WildcardIgnoreList(ignored_patterns, SimpleIgnoreSet(ignored_patterns)),
               ignored_extensions)

\* p is, or lies below, a directory of the base tree that the ignore check excludes
BelowIgnoredDir(p) ==
    \E d \in DOMAIN base : base[d].kind = "dir" /\ IgnoredPath(d) /\ IsPrefix(d, p)

\* the base entries that are not ignored and have no ignored ancestor directory
RetainedEntries ==
    {p \in DOMAIN base :
        \A k \in 1..Len(p) : SubSeq(p, 1, k) \in DOMAIN base /\ ~IgnoredPath(SubSeq(p, 1, k))}

Total(counts) == counts["identical"] + counts["modified"] + counts["missing"]

\* record i is the record of the entry at visited[i]
RecordsFollowVisited ==
    /\ Len(records) = Len(visited)
    /\ \A i \in 1..Len(records) : records[i].name = Last(visited[i])

\* C1: no record is emitted for an ignored directory or for any entry below it,
\* whether or not that entry matches an ignore rule itself, and nothing is counted
\* that has no record.
C1_PrunedNeverReported ==
    /\ RecordsFollowVisited
    /\ \A i \in 1..Len(visited) : ~BelowIgnoredDir(visited[i])
    /\ Total(status_counts) = Len(records)

\* a finished comparison of a tree with an ignored directory that holds an entry no
\* ignore rule matches, and with other entries reported
C1_Witness ==
    /\ pc = "done"
    /\ Len(records) > 0
    /\ \E d, p \in DOMAIN base :
          /\ base[d].kind = "dir" /\ IgnoredPath(d)
          /\ IsStrictPrefix(d, p) /\ ~IgnoredPath(p)

\* the status the claim gives the entry at path p
ClaimedStatus(p) ==
    IF ~(p \in DOMAIN target /\ target[p].err # "stat") THEN "missing"
    ELSE IF base[p].kind = "dir" THEN "identical"
    ELSE IF quick_scan THEN "identical"
    ELSE IF are_files_identical(BasePath(p), TargetPath(p)) = "True" THEN "identical"
    ELSE "modified"

\* C2: every record's status is missing when the target path does not exist, else
\* identical for a directory, else identical under quick_scan, else identical or
\* modified as are_files_identical decides.
C2_StatusClassification ==
    /\ Len(records) = Len(visited)
    /\ \A i \in 1..Len(records) : records[i].status_key = ClaimedStatus(visited[i])

\* a finished deep comparison that reports a modified file below a directory
\* reported identical
C2_Witness ==
    /\ pc = "done"
    /\ ~quick_scan
    /\ \E i, j \in 1..Len(records) :
          /\ records[i].status_key = "modified"
          /\ base[visited[j]].kind = "dir" /\ records[j].status_key = "identical"
          /\ IsStrictPrefix(visited[j], visited[i])

CountsMatchRecords ==
    /\ \A k \in StatusKeys :
          status_counts[k] = Cardinality({i \in 1..Len(records) : records[i].status_key = k})
    /\ Total(status_counts) = Len(records)

\* C3: each counter equals the number of records with that status, the three sum
\* to the number of records, and within one call no counter ever decreases.
C3_CountsSumToRecords ==
    /\ []CountsMatchRecords
    /\ [][pc' # "start" => \A k \in StatusKeys : status_counts'[k] >= status_counts[k]]_vars

\* a finished comparison in which some status was counted more than once
C3_Witness ==
    /\ pc = "done"
    /\ \E k \in StatusKeys : status_counts[k] >= 2
    /\ \E k \in StatusKeys : status_counts[k] = 0

IsFileAt(p) == base[p].kind = "file"

\* C4: records come in pre-order: among siblings directories precede files and each
\* group is in case-insensitive name order; a directory's record comes before the
\* records of its subtree, these are contiguous, and they start right after it.
C4_PreOrder ==
    /\ Len(records) = Len(visited)
    /\ \A i, j \in 1..Len(visited) :
          (i < j /\ Parent(visited[i]) = Parent(visited[j])) =>
              /\ ~(IsFileAt(visited[i]) /\ ~IsFileAt(visited[j]))
              /\ (IsFileAt(visited[i]) = IsFileAt(visited[j]))
                    => ~StrLess(Lower(Last(visited[j])), Lower(Last(visited[i])))
    /\ \A j \in 1..Len(visited) :
          Len(visited[j]) > 1 => \E i \in 1..(j - 1) : visited[i] = Parent(visited[j])
    /\ \A i, j, k \in 1..Len(visited) :
          (i < j /\ j < k /\ IsPrefix(visited[i], visited[k])) => IsPrefix(visited[i], visited[j])
    /\ pc = "done" =>
          \A i \in 1..Len(visited) :
              (\E p \in RetainedEntries : Parent(p) = visited[i])
                  => (i < Len(visited) /\ Parent(visited[i + 1]) = visited[i])

\* a finished comparison that reports two directories whose names sort differently
\* with and without case, the first with entries below it, and files after them
C4_Witness ==
    /\ pc = "done"
    /\ \E i, j, k, m \in 1..Len(visited) :
          /\ i < j /\ j < k /\ k < m
          /\ visited[i] = <<nc>> /\ Parent(visited[j]) = <<nc>>
          /\ visited[k] = <<nS>>
          /\ IsFileAt(visited[m]) /\ Len(visited[m]) = 1

\* C7: when the comparison has finished, every retained base entry has exactly one
\* record and every record is the record of a retained base entry.
C7_OneRecordPerRetainedEntry ==
    pc = "done" =>
        /\ RecordsFollowVisited
        /\ {visited[i] : i \in 1..Len(visited)} = RetainedEntries
        /\ \A i, j \in 1..Len(visited) : visited[i] = visited[j] => i = j
        /\ Len(records) = Cardinality(RetainedEntries)

\* a finished comparison where a file is ignored by its full path only, a directory
\* is pruned, and other entries are retained
C7_Witness ==
    /\ pc = "done"
    /\ Len(records) > 0
    /\ Cardinality(RetainedEntries) < Cardinality(DOMAIN base)
    /\ \E p \in DOMAIN base :
          /\ IsFileAt(p) /\ Len(p) > 1 /\ IgnoredPath(p)
          /\ ~IgnoredPath(<<Last(p)>>) /\ ~BelowIgnoredDir(p)

\* C5: two calls on the same trees, ignore rules and quick_scan value return the
\* same ordered records and the same counts, whatever the enumeration orders were.
C5_Deterministic ==
    (pc = "done" /\ prev # NoResult /\ prev[1].quick_scan = quick_scan) =>
        /\ records = prev[1].records
        /\ status_counts = prev[1].counts

\* C6: a deep call followed by a quick call on the same trees: the record lists have
\* the same length and the same prefix, connector and name at each position,
\* missing stays missing, identical stays identical, modified becomes identical, and
\* no record of the quick call is modified.
C6_QuickScanRefinesDeepScan ==
    (pc = "done" /\ prev # NoResult /\ ~prev[1].quick_scan /\ quick_scan) =>
        /\ Len(records) = Len(prev[1].records)
        /\ \A i \in 1..Len(records) :
              /\ i <= Len(prev[1].records)
              /\ records[i].prefix = prev[1].records[i].prefix
              /\ records[i].connector = prev[1].records[i].connector
              /\ records[i].name = prev[1].records[i].name
              /\ records[i].status_key # "modified"
              /\ prev[1].records[i].status_key = "missing" => records[i].status_key = "missing"
              /\ prev[1].records[i].status_key \in {"identical", "modified"}
                    => records[i].status_key = "identical"

\* the set of positions of s reached after the tokens toks[1..k], read from position
\* 0: a position is the number of characters consumed
RECURSIVE ReachedAfter(_, _, _)
ReachedAfter(s, toks, k) ==
    IF k = 0 THEN {0}
    ELSE LET before == ReachedAfter(s, toks, k - 1)
             tok    == toks[k]
         IN  IF tok.t = "star" THEN {m \in 0..Len(s) : \E b \in before : b <= m}
             ELSE {b + 1 : b \in {x \in before : x < Len(s) /\
                      CASE tok.t = "lit" -> s[x + 1] = tok.c
                        [] tok.t = "any" -> TRUE
                        [] OTHER -> (s[x + 1] \in tok.set) = ~tok.neg}}

\* the pattern matches the string from its first character to its last
MatchesWholePath(s, pat) == Len(s) \in ReachedAfter(s, Translate(pat, 1), Len(Translate(pat, 1)))

HasMeta(p) == \E i \in 1..Len(p) : p[i] \in {"*", "?", "["}

\* the final segment of a slash-separated path
FinalSegment(s) ==
    CHOOSE t \in {SubSeq(s, i, Len(s)) : i \in 1..(Len(s) + 1)} :
        /\ \A i \in 1..Len(t) : t[i] # "/"
        /\ (Len(t) = Len(s) \/ s[Len(s) - Len(t)] = "/")

\* the extension of a name: its part from the last dot on, when a character other
\* than a dot precedes that dot; else empty
ExtensionOf(name) ==
    LET dots == {i \in 1..Len(name) : name[i] = "."}
    IN  IF dots = {} THEN <<>>
        ELSE LET d == CHOOSE i \in dots : \A j \in dots : j <= i
             IN  IF \A i \in 1..(d - 1) : name[i] = "." THEN <<>>
                 ELSE SubSeq(name, d, Len(name))

\* the four cases of the claim, on the configured patterns
ClaimedIgnored(s) ==
    LET literal  == {ignored_patterns[k] : k \in {k \in 1..Len(ignored_patterns) : ~HasMeta(ignored_patterns[k])}}
        wildcard == {ignored_patterns[k] : k \in {k \in 1..Len(ignored_patterns) : HasMeta(ignored_patterns[k])}}
    IN  \/ s \in literal
        \/ FinalSegment(s) \in literal
        \/ ExtensionOf(FinalSegment(s)) # <<>> /\ ExtensionOf(FinalSegment(s)) \in ignored_extensions
        \/ \E w \in wildcard : MatchesWholePath(s, w)

\* C8: during the walk, where it is called, is_ignored is true of a path exactly
\* when the path or its final segment is a literal pattern, or the final segment's
\* extension is non-empty and ignored, or a wildcard pattern matches the whole path.
C8_IsIgnoredCases ==
    pc = "walk" =>
        \A p \in DOMAIN Reference :
            is_ignored(RelPath(p), simple_ignore_set, wildcard_ignore_list, ignored_extensions)
                = ClaimedIgnored(Replace(RelPath(p), Sep, "/"))

\* the walk has applied the check with a class pattern that matches the whole path
\* "A" and matches only the final segment of the longer path "S/b", which is kept
C8_Witness ==
    /\ pc = "walk"
    /\ walk_stack = <<>>
    /\ \E k \in 1..Len(wildcard_ignore_list) : wildcard_ignore_list[k] = <<"[", "A", "b", "]">>
    /\ <<nS>> \in DOMAIN tree_dict
    /\ \E i \in 1..Len(tree_dict[<<nS>>]) : tree_dict[<<nS>>][i].name = nb
    /\ \A i \in 1..Len(tree_dict[<<>>]) : tree_dict[<<>>][i].name # nA

\* C9: after the pre-processing every configured pattern is in exactly one of
\* simple_ignore_set and wildcard_ignore_list: in the list iff it contains "*", "?"
\* or "[", in the set otherwise; and the two hold configured patterns only.
C9_PatternPartition ==
    pc # "start" =>
        LET inList(p) == \E k \in 1..Len(wildcard_ignore_list) : wildcard_ignore_list[k] = p
        IN  /\ \A k \in 1..Len(ignored_patterns) :
                  LET p == ignored_patterns[k]
                  IN  /\ inList(p) = HasMeta(p)
                      /\ (p \in simple_ignore_set) = ~HasMeta(p)
                      /\ inList(p) # (p \in simple_ignore_set)
            /\ \A p \in simple_ignore_set : \E k \in 1..Len(ignored_patterns) : ignored_patterns[k] = p
            /\ \A k \in 1..Len(wildcard_ignore_list) :
                  \E m \in 1..Len(ignored_patterns) : ignored_patterns[m] = wildcard_ignore_list[k]

\* patterns with a repeated class pattern, pre-processed
C9_Witness ==
    /\ pc = "walk"
    /\ Len(ignored_patterns) = 2
    /\ ignored_patterns[1] = <<"[", "A", "b", "]">>
    /\ ignored_patterns[2] = ignored_patterns[1]
    /\ Len(wildcard_ignore_list) = 2

\* the equality check of the file at p fails on a stat, an open or a read
Unreadable(p) ==
    \/ base[p].err \in {"stat", "open", "read"}
    \/ target[p].err \in {"open", "read"}

\* C10: no exception escapes the comparison; in a deep comparison a file whose
\* target exists but which cannot be stat'd or read on either side is modified;
\* and the finished comparison has a record for every retained entry.
C10_UnreadableFileIsModified ==
    /\ pc # "raised"
    /\ Len(records) = Len(visited)
    /\ \A i \in 1..Len(visited) :
          (/\ ~quick_scan
           /\ IsFileAt(visited[i])
           /\ exists(TargetPath(visited[i]))
           /\ target[visited[i]].kind = "file"
           /\ Unreadable(visited[i])) => records[i].status_key = "modified"
    /\ pc = "done" => {visited[i] : i \in 1..Len(visited)} = RetainedEntries

\* a finished deep comparison with a record for an unreadable file and records
\* emitted after it
C10_Witness ==
    /\ pc = "done"
    /\ ~quick_scan
    /\ \E i \in 1..(Len(visited) - 1) :
          /\ IsFileAt(visited[i]) /\ exists(TargetPath(visited[i])) /\ Unreadable(visited[i])
          /\ records[i].status_key = "modified"

\* the sizes os.path.getsize returns for the two files at p differ
SizesDiffer(p) ==
    /\ exists(TargetPath(p))
    /\ base[p].err # "stat"
    /\ base[p].size # target[p].size

\* C11: in a deep comparison a retained file whose existing target has another size
\* is modified and neither file is opened or read for it; and whenever files are
\* opened or read, both sizes were taken before.
C11_SizeShortCircuit ==
    /\ Len(syscalls) = Len(visited)
    /\ Len(records) = Len(visited)
    /\ \A i \in 1..Len(visited) :
          /\ (~quick_scan /\ IsFileAt(visited[i]) /\ SizesDiffer(visited[i])) =>
                /\ records[i].status_key = "modified"
                /\ \A k \in 1..Len(syscalls[i]) : syscalls[i][k].op = "getsize"
                /\ Len(syscalls[i]) = 2
          /\ \A k \in 1..Len(syscalls[i]) :
                syscalls[i][k].op \in {"open", "read"} =>
                    /\ k > 2
                    /\ syscalls[i][1] = Call("getsize", BasePath(visited[i]))
                    /\ syscalls[i][2] = Call("getsize", TargetPath(visited[i]))

\* a finished deep comparison with a file whose target has another size, and a
\* file that was read on both sides
C11_Witness ==
    /\ pc = "done"
    /\ ~quick_scan
    /\ \E i \in 1..Len(visited) :
          IsFileAt(visited[i]) /\ SizesDiffer(visited[i]) /\ target[visited[i]].kind = "file"
    /\ \E i \in 1..Len(visited) : Len(syscalls[i]) = 6

\* target_root, or the target counterpart of a directory above p, does not exist
AncestorMissing(p) == \E k \in 0..(Len(p) - 1) : ~exists(TargetPath(SubSeq(p, 1, k)))

\* C12: an entry below a directory whose target counterpart does not exist (or
\* below a target_root that does not exist) still gets its record, and it is
\* missing; so a missing directory record is followed by missing records only for
\* its whole retained subtree.
C12_MissingAncestorMeansMissing ==
    /\ Len(records) = Len(visited)
    /\ \A i \in 1..Len(visited) :
          AncestorMissing(visited[i]) => records[i].status_key = "missing"
    /\ \A i, j \in 1..Len(visited) :
          (/\ ~IsFileAt(visited[i])
           /\ records[i].status_key = "missing"
           /\ IsStrictPrefix(visited[i], visited[j])) => records[j].status_key = "missing"
    /\ pc = "done" =>
          \A p \in RetainedEntries :
              AncestorMissing(p) =>
                  \E i \in 1..Len(visited) : visited[i] = p /\ records[i].status_key = "missing"

\* a finished comparison against an existing target_root in which a directory is
\* missing, an entry below it is reported, and another entry is not missing
C12_Witness ==
    /\ pc = "done"
    /\ exists(TargetPath(<<>>))
    /\ \E i, j, k \in 1..Len(visited) :
          /\ ~IsFileAt(visited[i]) /\ records[i].status_key = "missing"
          /\ IsStrictPrefix(visited[i], visited[j]) /\ records[j].status_key = "missing"
          /\ records[k].status_key # "missing"

-----------------------------------------------------------------------------
(* compass.main after the call of generate_tree_comparison (compass.py:52): *)
(* the totals of the written summary and the detailed tree section. The    *)
(* three keys main reads are the emoji strings of compass.py:81-83, written *)
(* here by their Unicode names.                                            *)

CheckMark   == "WHITE HEAVY CHECK MARK"
WarningSign == "WARNING SIGN"
CrossMark   == "CROSS MARK"

\* dict.get(key, default)
Get(d, key, default) == IF key \in DOMAIN d THEN d[key] ELSE default

\* compass.py:54: sum(status_counts.values())
RECURSIVE SumValues(_, _)
SumValues(d, keys) ==
    IF keys = {} THEN 0
    ELSE LET k == CHOOSE k \in keys : TRUE IN d[k] + SumValues(d, keys \ {k})

total_items(counts) == SumValues(counts, DOMAIN counts)

\* compass.py:81-83
total_identical(counts) == Get(counts, CheckMark, 0)
total_modified(counts)  == Get(counts, WarningSign, 0)
total_missing(counts)   == Get(counts, CrossMark, 0)

\* compass.py:119: "\n".join(comparison_tree) raises TypeError at the first item
\* that is not a str; every item is the tuple appended at analyzer.py:125
JoinRaises(comparison_tree) == comparison_tree # <<>>

\* C14: when total_items > 0, the three totals of the written summary are the
\* 'identical', 'modified' and 'missing' counts that generate_tree_comparison
\* returned, so they sum to total_items, and the detailed tree section is written
\* from the returned records without an error.
C14_SummaryTotalsAreCounts ==
    (pc = "done" /\ total_items(status_counts) > 0) =>
        /\ total_identical(status_counts) = status_counts["identical"]
        /\ total_modified(status_counts) = status_counts["modified"]
        /\ total_missing(status_counts) = status_counts["missing"]
        /\ total_identical(status_counts) + total_modified(status_counts)
               + total_missing(status_counts) = total_items(status_counts)
        /\ ~JoinRaises(records)

\* the entries the partitioned comparator has reported
Reported == {visited[i] : i \in 1..Len(visited)}

\* the ignore patterns are plain names: no wildcard character and no "/"
PlainNames ==
    \A k \in 1..Len(ignored_patterns) :
        ~HasMeta(ignored_patterns[k]) /\ ~Contains(ignored_patterns[k], "/")

\* C13 as stated: for every ignore configuration the partitioned check and the
\* legacy single-list check exclude the same base entries, so a finished
\* comparison reports exactly the entries the legacy comparator reports.
C13_SameEntriesAsLegacy == pc = "done" => Reported = LegacyWalk(<<>>)

\* C13 as amended: the two comparators report the same entries whenever every
\* ignore pattern is a plain name, without "*", "?", "[" or "/".
C13_SameEntriesForPlainNames == (pc = "done" /\ PlainNames) => Reported = LegacyWalk(<<>>)

\* a finished comparison under plain-name patterns in which one entry is excluded
\* by a pattern and another by its extension only
C13_Witness ==
    /\ pc = "done"
    /\ PlainNames
    /\ Reported # {}
    /\ \E p, q \in DOMAIN base \ Reported :
          /\ Len(p) > 0 /\ Len(q) > 0
          /\ \E k \in 1..Len(ignored_patterns) : ignored_patterns[k] = Last(p)
          /\ \A k \in 1..Len(ignored_patterns) : ignored_patterns[k] # Last(q)
          /\ Parent(q) \in Reported
          /\ SplitextExt(Last(q)) \in ignored_extensions

\* the target path of the base entry at p exists and is of kind k
TargetIs(p, k) == exists(TargetPath(p)) /\ target[p].kind = k

\* C15: the status follows existence, not entry type: a base directory whose target
\* path is a regular file is identical and every retained entry below it gets a
\* missing record, and in a deep comparison a base file whose target path is a
\* directory is never identical.
C15_ExistenceNotType ==
    /\ Len(records) = Len(visited)
    /\ \A i \in 1..Len(visited) :
          /\ (~IsFileAt(visited[i]) /\ TargetIs(visited[i], "file")) =>
                /\ records[i].status_key = "identical"
                /\ \A j \in 1..Len(visited) :
                      IsStrictPrefix(visited[i], visited[j]) => records[j].status_key = "missing"
                /\ pc = "done" =>
                      \A p \in RetainedEntries :
                          IsStrictPrefix(visited[i], p) => \E j \in 1..Len(visited) : visited[j] = p
          /\ (~quick_scan /\ IsFileAt(visited[i]) /\ TargetIs(visited[i], "dir")) =>
                records[i].status_key # "identical"

\* a finished deep comparison with a directory whose target is a file and has an
\* entry reported below it, and a file whose target is a directory of the file's size
C15_Witness ==
    /\ pc = "done"
    /\ ~quick_scan
    /\ \E i, j, k \in 1..Len(visited) :
          /\ ~IsFileAt(visited[i]) /\ TargetIs(visited[i], "file")
          /\ IsStrictPrefix(visited[i], visited[j])
          /\ IsFileAt(visited[k]) /\ TargetIs(visited[k], "dir")
          /\ target[visited[k]].size = base[visited[k]].size
          /\ records[k].status_key = "modified"

====
